---- MODULE Spec2Model ----
(***************************************************************************)
(* The Nanoleaf integration of Home Assistant as a state machine.          *)
(*                                                                         *)
(*   light.py        NanoleafLight: the polled entity and its commands     *)
(*   config_flow.py  NanoleafConfigFlow: zeroconf discovery and pairing    *)
(*   __init__.py     async_remove_entry: token revocation on removal       *)
(*                                                                         *)
(* Three specifications share the module's variables:                      *)
(*   Spec            the light entity (update, turn_on, turn_off)          *)
(*   FlowSpec        discovery, pairing and removal of config entries      *)
(*   BrightnessSpec  the brightness scaling, device 0..100 <-> host 0..255 *)
(*                                                                         *)
(* Python values are encoded as follows.  An optional value is a sequence  *)
(* of length at most one: None is <<>> and a value v is <<v>>.  Floats     *)
(* that reach int() (hue, saturation, transition seconds) are fixed-point  *)
(* numbers in tenths, so that int() truncates something.                   *)
(***************************************************************************)
EXTENDS Integers, Sequences, FiniteSets, TLC

VARIABLES
    self,       \* the NanoleafLight instance: its cached fields
    last,       \* the most recent entity operation: arguments, client calls, outcome
    lastPoll,   \* outcome of the most recent update(): "none", "ok" or "failed"
    flows,      \* pairing sessions, keyed by unique id
    entries,    \* the configured devices (config entries), in creation order
    flowLast,   \* the most recent config-flow or removal handler: result and client calls
    roundtrip   \* brightness scaling: device value, exposed value, commanded value

vars == <<self, last, lastPoll, flows, entries, flowLast, roundtrip>>
lightVars == <<self, last, lastPoll>>
flowVars == <<flows, entries, flowLast>>

----------------------------------------------------------------------------
(* Python values *)

None == <<>>
Some(v) == <<v>>
Val(o) == o[1]
Opt(S) == {None} \cup {Some(v) : v \in S}

\* Python truth value of an optional number, string, tuple
TruthyNum(o) == o # None /\ Val(o) # 0
TruthyStr(o) == o # None /\ Val(o) # ""
TruthyTuple(o) == o # None /\ Val(o) # <<>>

\* int() of a non-negative float held in tenths: truncation
int(tenths) == tenths \div 10

\* x in list
InList(x, list) == \E i \in DOMAIN list : list[i] = x

\* the largest power of two strictly below q (q >= 2)
RECURSIVE Pow2Below(_)
Pow2Below(q) == IF q <= 2 THEN 1 ELSE 2 * Pow2Below((q + 1) \div 2)

(***************************************************************************)
(* int(b * 2.55) in IEEE-754 double arithmetic, b a non-negative integer.  *)
(* The double nearest 2.55 is 2.55 - (2/5)*2^-51, so the exact product is  *)
(* 51b/20 - (8b/5)*2^-53.  When 51b/20 is not an integer it is at least    *)
(* 1/20 away from one and the deficit cannot change the integer part.      *)
(* When it is an integer q, the product lies just below q and the          *)
(* multiplication rounds to nearest, ties to even: half a unit in the last *)
(* place below q is Pow2Below(q)*2^-53, q itself has the even significand, *)
(* so the result is q unless the deficit exceeds half a unit, and then it  *)
(* is the double just below q, which int() truncates to q - 1.             *)
(***************************************************************************)
int_mul_2_55(b) ==
    LET n == b * 51
        q == n \div 20
        deficit == (8 * b) \div 5
    IN  IF n % 20 # 0 \/ q < 2 THEN q
        ELSE IF deficit > Pow2Below(q) THEN q - 1 ELSE q

(***************************************************************************)
(* int(x / 2.55) in double arithmetic, x a non-negative integer.  The      *)
(* divisor is slightly below 2.55, so the quotient is slightly above       *)
(* 20x/51: it never falls below an integer that 20x/51 reaches, and a      *)
(* non-integer 20x/51 is at least 1/51 away from the next integer.         *)
(***************************************************************************)
int_div_2_55(x) == (x * 20) \div 51

\* homeassistant.util.color.color_temperature_mired_to_kelvin
mired_to_kelvin(mired) == 1000000 \div mired

----------------------------------------------------------------------------
(* The device: what the client's info property returns *)

DeviceInfo(list, select) ==
    [ firmwareVersion |-> "5.1.0",
      manufacturer |-> "Nanoleaf",
      model |-> "NL29",
      serialNo |-> "S16021A",
      state |-> [ brightness |-> [value |-> 100],
                  ct |-> [value |-> 4000],
                  hue |-> [value |-> 120],
                  sat |-> [value |-> 50],
                  on |-> [value |-> TRUE] ],
      effects |-> [ effectsList |-> list, select |-> select ] ]

Infos ==
    { DeviceInfo(l, s) :
        l \in {<<"Rainbow">>, <<"Rainbow", "Flames">>},
        s \in {"*Solid*", "Rainbow", "Flames"} }

\* the info fetch either returns a snapshot or raises Unavailable (None here)
Fetches == Opt(Infos)

----------------------------------------------------------------------------
(* NanoleafLight *)

NanoleafLight(name) ==
    [ _unique_id |-> None,
      _available |-> TRUE,
      _brightness |-> None,
      _color_temp |-> None,
      _effect |-> None,
      _effects_list |-> None,
      _firmwareVersion |-> None,
      _manufacturer |-> None,
      _model |-> None,
      _name |-> name,
      _hs_color |-> None,
      _state |-> None ]

available == self._available
effect == self._effect
effect_list == self._effects_list
is_on == self._state
hs_color == self._hs_color

brightness_of(b) == IF b # None THEN Some(int_mul_2_55(Val(b))) ELSE None
brightness == brightness_of(self._brightness)

Call(op, args) == [op |-> op, args |-> args]

NoKwargs ==
    [ brightness |-> None, hs_color |-> None, color_temp |-> None,
      effect |-> None, transition |-> None ]

Op(name, kwargs, info, calls, device, result) ==
    [ op |-> name, kwargs |-> kwargs, info |-> info, calls |-> calls,
      device |-> device, result |-> result ]

\* the client calls turn_on makes before it looks at the effect
TurnOnCalls(kwargs) ==
    LET b == kwargs.brightness
        hs == kwargs.hs_color
        ct == kwargs.color_temp
        tr == kwargs.transition
    IN  (IF TruthyTuple(hs)
         THEN << Call("hue", <<int(Val(hs)[1])>>),
                 Call("saturation", <<int(Val(hs)[2])>>) >>
         ELSE <<>>)
        \o (IF TruthyNum(ct)
            THEN << Call("color_temperature", <<mired_to_kelvin(Val(ct))>>) >>
            ELSE <<>>)
        \o (IF TruthyNum(tr)
            THEN IF TruthyNum(b)
                 THEN << Call("brightness_transition",
                              <<int_div_2_55(Val(b)), int(Val(tr))>>) >>
                 ELSE << Call("brightness_transition", <<100, int(Val(tr))>>) >>
            ELSE << Call("on", <<TRUE>>) >>
                 \o (IF TruthyNum(b)
                     THEN << Call("brightness", <<int_div_2_55(Val(b))>>) >>
                     ELSE <<>>))

(***************************************************************************)
(* turn_on.  failAt is the client call that raises Unavailable (0: none   *)
(* does).  Nothing in turn_on catches an exception, so the first          *)
(* one raised ends the command and reaches the caller.                     *)
(***************************************************************************)
turn_on(kwargs, failAt) ==
    LET calls == TurnOnCalls(kwargs)
        n == Len(calls)
        e == kwargs.effect
        done(cs, dev, res) == Op("turn_on", kwargs, None, cs, dev, res)
    IN  /\ last' =
            IF failAt \in 1..n
            THEN done(SubSeq(calls, 1, failAt), "Unavailable", "Unavailable")
            ELSE IF ~TruthyStr(e) THEN done(calls, "ok", "ok")
            ELSE IF self._effects_list = None THEN done(calls, "ok", "TypeError")
            ELSE IF ~InList(Val(e), Val(self._effects_list))
                 THEN done(calls, "ok", "ValueError")
            ELSE IF failAt = n + 1
                 THEN done(calls \o <<Call("effect", <<Val(e)>>)>>,
                           "Unavailable", "Unavailable")
            ELSE done(calls \o <<Call("effect", <<Val(e)>>)>>, "ok", "ok")
       /\ UNCHANGED <<self, lastPoll>>

turn_off(kwargs, failAt) ==
    LET tr == kwargs.transition
        calls == IF TruthyNum(tr)
                 THEN << Call("brightness_transition", <<0, int(Val(tr))>>) >>
                 ELSE << Call("on", <<FALSE>>) >>
        raised == IF failAt = 1 THEN "Unavailable" ELSE "ok"
    IN  /\ last' = Op("turn_off", kwargs, None, calls, raised, raised)
        /\ UNCHANGED <<self, lastPoll>>

\* update(), lines 218-222: the selected effect is kept only when the list has it
select_effect_unfiltered(info) == Some(info.effects.select)
select_effect(info) ==
    IF InList(info.effects.select, info.effects.effectsList)
    THEN Some(info.effects.select)
    ELSE None

\* update(), the except branch: the entity after the info fetch raised Unavailable
update_unavailable_reset == [NanoleafLight(self._name) EXCEPT !._available = FALSE]
update_unavailable_ignored == self
update_unavailable == [self EXCEPT !._available = FALSE]

(***************************************************************************)
(* update().  fetched is what self._light.info returns, None when it       *)
(* raises Unavailable; the fetch is the first statement of the try block,  *)
(* so on Unavailable no field has been assigned yet.                       *)
(***************************************************************************)
update(fetched) ==
    IF fetched # None
    THEN LET info == Val(fetched)
             eff == select_effect(info)
         IN  /\ self' = [ self EXCEPT
                    !._available = TRUE,
                    !._firmwareVersion = Some(info.firmwareVersion),
                    !._manufacturer = Some(info.manufacturer),
                    !._model = Some(info.model),
                    !._unique_id = Some(info.serialNo),
                    !._brightness = Some(info.state.brightness.value),
                    !._effects_list = Some(info.effects.effectsList),
                    !._effect = eff,
                    !._color_temp = IF eff = None
                                    THEN Some(info.state.ct.value) ELSE None,
                    !._hs_color = IF eff = None
                                  THEN Some(<<info.state.hue.value,
                                              info.state.sat.value>>)
                                  ELSE None,
                    !._state = Some(info.state.on.value) ]
             /\ last' = Op("update", NoKwargs, fetched, <<Call("info", <<>>)>>,
                           "ok", "ok")
             /\ lastPoll' = "ok"
    ELSE /\ self' = update_unavailable
         /\ last' = Op("update", NoKwargs, None, <<Call("info", <<>>)>>,
                       "Unavailable", "ok")
         /\ lastPoll' = "failed"

----------------------------------------------------------------------------
(* NanoleafConfigFlow and async_remove_entry *)

\* text is a sequence of parts; str.replace(old, "") drops every occurrence of old
RECURSIVE replace(_, _)
replace(text, old) ==
    IF Len(text) < Len(old) \/ old = <<>> THEN text
    ELSE IF SubSeq(text, 1, Len(old)) = old
         THEN replace(SubSeq(text, Len(old) + 1, Len(text)), old)
         ELSE <<Head(text)>> \o replace(Tail(text), old)

\* pynanoleaf.Nanoleaf(host, port=port, token=token)
Nanoleaf(host, port, token) == [host |-> host, port |-> port, token |-> token]
ClientCall(client, op) == [client |-> client, op |-> op]

\* what a client call did: the exception it raised ("ok": none) and the token
\* the client holds afterwards
Answer(raised, token) == [raised |-> raised, token |-> token]
NoAnswer == Answer("none", None)

\* the host's record of what a handler did: its result, the client calls it
\* issued, what the device answered and the exception that left the handler;
\* retry tells a submission that answers a form showing errors
Handled(handler, id, submitted, calls, device, raised, result, log) ==
    [ handler |-> handler, id |-> id, submitted |-> submitted, calls |-> calls,
      device |-> device, raised |-> raised, result |-> result, log |-> log,
      retry |-> submitted /\ flows[id] # None /\ Val(flows[id]).errors # {} ]

\* the host's flow results
async_abort(reason) == [type |-> "abort", reason |-> reason]
async_show_form(step_id, placeholders, errors) ==
    [ type |-> "form", step_id |-> step_id,
      description_placeholders |-> placeholders, errors |-> errors ]
async_create_entry(title, data) ==
    [type |-> "create_entry", title |-> title, data |-> data]

\* the host's config entry made from a create_entry result of the flow of unique_id
ConfigEntry(unique_id, result) ==
    [unique_id |-> unique_id, title |-> result.title, data |-> result.data]

\* _abort_if_unique_id_configured: a config entry with the flow's unique id exists
unique_id_configured(id) == \E i \in DOMAIN entries : entries[i].unique_id = id

\* the host drops the entry before it calls async_remove_entry
without_entry(i) ==
    SubSeq(entries, 1, i - 1) \o SubSeq(entries, i + 1, Len(entries))

_async_show_zeroconf_form(discovery_info, errors) ==
    async_show_form("zeroconf_confirm", discovery_info, errors)

_entry_from_data(data) == async_create_entry(data.name, data)

\* async_step_zeroconf_confirm, the except clauses: the errors dict, as a set of items
confirm_errors_swapped(raised) ==
    IF raised = "NotAuthorizingNewTokens" THEN {<<"base", "cannot_connect">>}
    ELSE IF raised = "Unavailable" THEN {<<"base", "failed_to_request_token">>}
    ELSE {}
confirm_errors(raised) ==
    IF raised = "NotAuthorizingNewTokens" THEN {<<"base", "failed_to_request_token">>}
    ELSE IF raised = "Unavailable" THEN {<<"base", "cannot_connect">>}
    ELSE {}

(***************************************************************************)
(* async_step_zeroconf_confirm of the flow with unique id `id` and         *)
(* discovery info `discovery_info`.  authorize is what nanoleaf.authorize  *)
(* does if called: the exception it raises ("ok": none) and the token the  *)
(* client holds afterwards.                                                *)
(***************************************************************************)
async_step_zeroconf_confirm(handler, id, discovery_info, user_input, authorize) ==
    IF user_input = None
    THEN /\ flows' = [flows EXCEPT ![id] =
                Some([discovery_info |-> discovery_info, errors |-> {}])]
         /\ flowLast' = Handled(handler, id, FALSE, <<>>, NoAnswer, "ok",
                _async_show_zeroconf_form(discovery_info, {}), None)
         /\ UNCHANGED entries
    ELSE LET nanoleaf == Nanoleaf(discovery_info.host, discovery_info.port, None)
             calls == <<ClientCall(nanoleaf, "authorize")>>
             errors == confirm_errors(authorize.raised)
             data == [ host |-> discovery_info.host, port |-> discovery_info.port,
                       id |-> discovery_info.id, name |-> discovery_info.name,
                       token |-> authorize.token ]
         IN  IF errors # {}
             THEN /\ flows' = [flows EXCEPT ![id] =
                        Some([discovery_info |-> discovery_info, errors |-> errors])]
                  /\ flowLast' = Handled(handler, id, TRUE, calls,
                        authorize, "ok",
                        _async_show_zeroconf_form(discovery_info, errors), None)
                  /\ UNCHANGED entries
             ELSE /\ flows' = [flows EXCEPT ![id] = None]
                  /\ flowLast' = Handled(handler, id, TRUE, calls,
                        authorize, "ok", _entry_from_data(data), None)
                  /\ entries' = Append(entries, ConfigEntry(id, _entry_from_data(data)))

\* async_step_zeroconf with the duplicate detection left out
async_step_zeroconf_no_abort(discovery) ==
    LET zctype == discovery.type
        id == discovery.properties.id
        info == [ host |-> discovery.host, port |-> discovery.port, id |-> id,
                  name |-> replace(discovery.name, <<".", zctype>>) ]
    IN  async_step_zeroconf_confirm("zeroconf", id, info, None, NoAnswer)

(***************************************************************************)
(* async_step_zeroconf: a discovery record starts the flow of its id.      *)
(***************************************************************************)
async_step_zeroconf(discovery) ==
    LET zctype == discovery.type
        id == discovery.properties.id
        info == [ host |-> discovery.host, port |-> discovery.port, id |-> id,
                  name |-> replace(discovery.name, <<".", zctype>>) ]
    IN  IF unique_id_configured(id)
        THEN /\ flowLast' = Handled("zeroconf", id, FALSE, <<>>, NoAnswer, "ok",
                    async_abort("already_configured"), None)
             /\ UNCHANGED <<flows, entries>>
        ELSE async_step_zeroconf_confirm("zeroconf", id, info, None, NoAnswer)

\* async_remove_entry, the try statement: the exception that leaves the handler
remove_entry_raised_unavailable(raised) ==
    IF raised = "Unavailable" THEN "Unavailable" ELSE "ok"
remove_entry_raised(raised) ==
    IF raised \in {"InvalidToken", "Unavailable"} THEN "ok" ELSE raised

\* async_remove_entry, the error logged
remove_entry_log(raised) ==
    IF raised = "InvalidToken" THEN Some("Token is invalid")
    ELSE IF raised = "Unavailable" THEN Some("The device is unavailable")
    ELSE None

(***************************************************************************)
(* async_remove_entry for the i-th config entry; raised is what            *)
(* nanoleaf.delete_token raises ("ok": nothing).                           *)
(***************************************************************************)
async_remove_entry(i, raised) ==
    LET config == entries[i]
        nanoleaf == Nanoleaf(config.data.host, config.data.port, config.data.token)
    IN  /\ flowLast' = Handled("remove_entry", config.unique_id, FALSE,
                <<ClientCall(nanoleaf, "delete_token")>>,
                Answer(raised, config.data.token), remove_entry_raised(raised), Some(config), remove_entry_log(raised))
        /\ entries' = without_entry(i)
        /\ UNCHANGED flows

----------------------------------------------------------------------------
(* Command arguments *)

Brightnesses == Opt({0, 128, 255})
HsColors == Opt({<<1205, 500>>})
ColorTemps == Opt({250})
Effects == Opt({"Rainbow", "Unknown"})
Transitions == Opt({0, 25})

TurnOnKwargs ==
    [ brightness : Brightnesses, hs_color : HsColors, color_temp : ColorTemps,
      effect : Effects, transition : Transitions ]

TurnOffKwargs == { [NoKwargs EXCEPT !.transition = t] : t \in Transitions }

\* discovery and pairing inputs
Ids == {"A1", "B2"}
Hosts == {"10.0.0.2", "10.0.0.3"}
Tokens == {"tok1", "tok2"}
ZcType == "_nanoleafapi._tcp.local."

Discoveries ==
    { [ host |-> h, port |-> 16021, type |-> ZcType,
        name |-> <<"Canvas ", id, ".", ZcType>>,
        properties |-> [id |-> id, md |-> "NL29", srcvers |-> "5.1.0"] ] :
        h \in Hosts, id \in Ids }

AuthorizeOutcomes ==
    { Answer("ok", Some(t)) : t \in Tokens }
        \cup { Answer(e, None) :
                  e \in {"NotAuthorizingNewTokens", "Unavailable"} }

DeleteOutcomes == {"ok", "InvalidToken", "Unavailable"}

\* config entries the model lets exist at once
MaxEntries == 3

InitLight ==
    /\ self = NanoleafLight("Canvas A1")
    /\ last = Op("init", NoKwargs, None, <<>>, "ok", "ok")
    /\ lastPoll = "none"

InitFlow ==
    /\ flows = [id \in Ids |-> None]
    /\ entries = <<>>
    /\ flowLast = Handled("init", "", FALSE, <<>>, NoAnswer, "ok", None, None)

Init == InitLight /\ InitFlow /\ roundtrip = None

Poll == \E f \in Fetches : update(f)
TurnOn ==
    \E k \in TurnOnKwargs :
        \E failAt \in 0..(Len(TurnOnCalls(k)) + 1) : turn_on(k, failAt)
TurnOff == \E k \in TurnOffKwargs, failAt \in 0..1 : turn_off(k, failAt)

Next ==
    \/ Poll /\ UNCHANGED <<flowVars, roundtrip>>
    \/ TurnOn /\ UNCHANGED <<flowVars, roundtrip>>
    \/ TurnOff /\ UNCHANGED <<flowVars, roundtrip>>

Spec == Init /\ [][Next]_vars

Zeroconf == \E d \in Discoveries : async_step_zeroconf(d)
Confirm ==
    \E id \in Ids, a \in AuthorizeOutcomes :
        /\ flows[id] # None
        /\ Len(entries) < MaxEntries
        /\ async_step_zeroconf_confirm("zeroconf_confirm", id,
                Val(flows[id]).discovery_info, Some("submit"), a)
Remove ==
    \E i \in DOMAIN entries, raised \in DeleteOutcomes : async_remove_entry(i, raised)

FlowNext ==
    \/ Zeroconf /\ UNCHANGED <<lightVars, roundtrip>>
    \/ Confirm /\ UNCHANGED <<lightVars, roundtrip>>
    \/ Remove /\ UNCHANGED <<lightVars, roundtrip>>

FlowSpec == Init /\ [][FlowNext]_vars

\* the device's brightness range is 0..DeviceBrightnessMax
DeviceBrightnessMax == 100

\* the brightness property applied to a value polled from the device
ReadBrightness ==
    /\ roundtrip # None
    /\ Val(roundtrip).pc = "polled"
    /\ roundtrip' = Some([Val(roundtrip) EXCEPT
            !.pc = "exposed",
            !.exposed = brightness_of(Some(Val(roundtrip).device))])

\* turn_on's rescaling applied to the exposed value
CommandBrightness ==
    /\ roundtrip # None
    /\ Val(roundtrip).pc = "exposed"
    /\ roundtrip' = Some([Val(roundtrip) EXCEPT
            !.pc = "commanded",
            !.commanded = Some(int_div_2_55(Val(Val(roundtrip).exposed)))])

BrightnessInit ==
    /\ InitLight
    /\ InitFlow
    /\ roundtrip \in
            { Some([pc |-> "polled", device |-> b, exposed |-> None, commanded |-> None]) :
                b \in 0..DeviceBrightnessMax }

BrightnessNext ==
    \/ ReadBrightness /\ UNCHANGED <<lightVars, flowVars>>
    \/ CommandBrightness /\ UNCHANGED <<lightVars, flowVars>>

BrightnessSpec == BrightnessInit /\ [][BrightnessNext]_vars

----------------------------------------------------------------------------
(* Properties of the light entity, checked under Spec *)

HasCall(calls, op) == \E i \in DOMAIN calls : calls[i].op = op
HasCallWith(calls, op, args) ==
    \E i \in DOMAIN calls : calls[i].op = op /\ calls[i].args = args

\* a command that the device answered throughout
Reached(name) == last.op = name /\ last.device = "ok"

(* C1: a turn_on whose effect is not in the last-known effect list fails    *)
(* with ValueError and has issued no call at all to the device client.     *)
C1_UnknownEffectIssuesNoCall ==
    ( /\ Reached("turn_on")
      /\ last.kwargs.effect # None
      /\ self._effects_list # None
      /\ ~InList(Val(last.kwargs.effect), Val(self._effects_list)) )
        => (last.result = "ValueError" /\ last.calls = <<>>)

(* C2: Unavailable raised by the client during turn_on or turn_off is       *)
(* caught inside the entity and the available flag becomes false.          *)
C2_CommandUnavailableCaught ==
    (last.op \in {"turn_on", "turn_off"} /\ last.device = "Unavailable")
        => (last.result = "ok" /\ ~available)

(* C3: the exposed effect is None or a member of the exposed effect list;  *)
(* a selected effect the device reports outside its own list is never      *)
(* exposed, and color_temp and hs_color are then taken from the state.     *)
C3_EffectInEffectList ==
    /\ effect = None
        \/ (effect_list # None /\ InList(Val(effect), Val(effect_list)))
    /\ ( /\ last.op = "update"
         /\ last.info # None
         /\ ~InList(Val(last.info).effects.select,
                    Val(last.info).effects.effectsList) )
            => /\ effect = None
               /\ self._color_temp = Some(Val(last.info).state.ct.value)
               /\ hs_color = Some(<<Val(last.info).state.hue.value,
                                    Val(last.info).state.sat.value>>)

C3_Witness ==
    /\ last.op = "update"
    /\ last.info # None
    /\ Val(last.info).effects.select = "*Solid*"
    /\ effect = None
    /\ effect_list # None

(* C4: a poll whose info fetch raises Unavailable leaves every cached      *)
(* field as it was, sets only available, to false, and raises nothing.     *)
C4_FailedPollFrame ==
    [][ (last'.op = "update" /\ last'.device = "Unavailable")
            => /\ self' = [self EXCEPT !._available = FALSE]
               /\ last'.result = "ok" ]_vars

C4_Witness ==
    /\ last.op = "update"
    /\ last.device = "Unavailable"
    /\ ~available
    /\ effect # None
    /\ brightness # None

(* C7: a command that carries a transition issues a brightness ramp over   *)
(* that duration and no on/off switch: turn_on to the requested brightness *)
(* rescaled to 0..100, or to 100 when none is given, turn_off to 0; a      *)
(* command without transition switches on (and sets brightness if given)   *)
(* or off and issues no ramp.  A transition of 0 is left open here.        *)
C7_TransitionRamps ==
    LET k == last.kwargs
        tr == k.transition
        given == tr # None /\ Val(tr) > 0
        target == IF k.brightness # None
                  THEN int_div_2_55(Val(k.brightness)) ELSE 100
    IN  /\ (Reached("turn_on") /\ given)
            => /\ HasCallWith(last.calls, "brightness_transition",
                              <<target, int(Val(tr))>>)
               /\ ~HasCall(last.calls, "on")
        /\ (Reached("turn_off") /\ given)
            => last.calls = <<Call("brightness_transition", <<0, int(Val(tr))>>)>>
        /\ (Reached("turn_on") /\ tr = None)
            => /\ HasCallWith(last.calls, "on", <<TRUE>>)
               /\ k.brightness # None
                    => HasCallWith(last.calls, "brightness",
                                   <<int_div_2_55(Val(k.brightness))>>)
               /\ ~HasCall(last.calls, "brightness_transition")
        /\ (Reached("turn_off") /\ tr = None)
            => last.calls = <<Call("on", <<FALSE>>)>>

(* C10: available is true exactly when the most recent poll succeeded, and *)
(* true before the first poll, whatever commands came in between; a poll   *)
(* can always be processed, after a failed one too.                        *)
C10_AvailableIffLastPollOk ==
    /\ available <=> (lastPoll # "failed")
    /\ ENABLED Poll

C10_Witness ==
    /\ lastPoll = "ok"
    /\ last.op = "turn_off"
    /\ last.device = "Unavailable"
    /\ available

----------------------------------------------------------------------------
(* Properties of discovery, pairing and removal, checked under FlowSpec *)

Submitted == flowLast.handler = "zeroconf_confirm" /\ flowLast.submitted

(* C5: a confirmation submission creates a device record exactly when its  *)
(* token request succeeded, and the record carries the host, port, name    *)
(* and the token just issued; NotAuthorizingNewTokens gives the            *)
(* zeroconf_confirm form with failed_to_request_token, Unavailable the     *)
(* same form with cannot_connect, and then no record is created; each      *)
(* submission makes exactly one token request; after a failure the flow    *)
(* is still there to be submitted again.                                   *)
C5_PairingOutcome ==
    [][ (flowLast'.handler = "zeroconf_confirm" /\ flowLast'.submitted) =>
          LET id == flowLast'.id
              info == Val(flows[id]).discovery_info
              res == flowLast'.result
              dev == flowLast'.device.raised
          IN  /\ flowLast'.calls =
                    <<ClientCall(Nanoleaf(info.host, info.port, None), "authorize")>>
              /\ flowLast'.raised = "ok"
              /\ (res.type = "create_entry") <=> (dev = "ok")
              /\ (entries' # entries) <=> (dev = "ok")
              /\ dev = "ok" =>
                    /\ Len(entries') = Len(entries) + 1
                    /\ SubSeq(entries', 1, Len(entries)) = entries
                    /\ entries'[Len(entries')].unique_id = id
                    /\ entries'[Len(entries')].data = res.data
                    /\ res.data.host = info.host
                    /\ res.data.port = info.port
                    /\ res.data.name = info.name
                    /\ res.data.token # None
                    /\ res.data.token = flowLast'.device.token
                    /\ res.title = info.name
              /\ dev # "ok" =>
                    /\ res.type = "form"
                    /\ res.step_id = "zeroconf_confirm"
                    /\ res.errors =
                          IF dev = "NotAuthorizingNewTokens"
                          THEN {<<"base", "failed_to_request_token">>}
                          ELSE {<<"base", "cannot_connect">>}
                    /\ dev \in {"NotAuthorizingNewTokens", "Unavailable"}
                    /\ flows'[id] # None
                    /\ Val(flows'[id]).discovery_info = info ]_vars

\* a record created by a submission that follows a failed one
C5_Witness ==
    /\ Submitted
    /\ flowLast.result.type = "create_entry"
    /\ flowLast.result.data.token = Some("tok2")
    /\ flowLast.result.data.name = <<"Canvas ", "B2">>
    /\ flowLast.retry
    /\ \E i \in DOMAIN entries : entries[i].data = flowLast.result.data

(* C6: a discovery whose id is the unique id of a configured device aborts *)
(* as already configured, with no form shown and no call to the device;    *)
(* there is at most one configured device record per id.                   *)
C6_DuplicateDiscoveryAborts ==
    /\ (flowLast.handler = "zeroconf" /\ unique_id_configured(flowLast.id))
            => /\ flowLast.result = async_abort("already_configured")
               /\ flowLast.calls = <<>>
               /\ flows[flowLast.id] = None
    /\ \A i, j \in DOMAIN entries :
            entries[i].unique_id = entries[j].unique_id => i = j

C6_Witness ==
    /\ flowLast.handler = "zeroconf"
    /\ unique_id_configured(flowLast.id)
    /\ flowLast.result.type = "abort"
    /\ Len(entries) = 2

(* C9: removing the integration issues exactly one token-revocation call,  *)
(* on a client built from the stored host, port and token, and raises      *)
(* nothing, whether the call succeeds, finds the token invalid or finds    *)
(* the device unreachable.                                                 *)
C9_RemovalNeverFails ==
    flowLast.handler = "remove_entry" =>
        LET config == Val(flowLast.result)
        IN  /\ flowLast.calls =
                  << ClientCall(Nanoleaf(config.data.host, config.data.port,
                                         config.data.token), "delete_token") >>
            /\ flowLast.raised = "ok"
            /\ flowLast.device.raised \in DeleteOutcomes

C9_Witness ==
    /\ flowLast.handler = "remove_entry"
    /\ flowLast.device.raised = "Unavailable"
    /\ flowLast.raised = "ok"
    /\ flowLast.log # None

----------------------------------------------------------------------------
(* Brightness scaling, checked under BrightnessSpec *)

\* round(n / 100), halves to even as Python 3 rounds
round_hundredths(n) ==
    LET q == n \div 100
        r == n % 100
    IN  IF r > 50 \/ (r = 50 /\ q % 2 = 1) THEN q + 1 ELSE q

Distance(a, b) == IF a >= b THEN a - b ELSE b - a

(* C8: for every device brightness b in 0..100 the exposed brightness is   *)
(* round(b * 2.55), and turn_on's rescaling of the exposed value gives a   *)
(* device value within 1 of b.                                             *)
C8_BrightnessRoundTrip ==
    roundtrip # None =>
        LET rt == Val(roundtrip)
        IN  /\ rt.exposed # None
                => Val(rt.exposed) = round_hundredths(rt.device * 255)
            /\ rt.commanded # None
                => Distance(Val(rt.commanded), rt.device) <= 1

====
